---------------------------- MODULE Spec2Model ----------------------------
(***************************************************************************)
(* A model of sacct-MemoryPerCore.py: the interval partitioner             *)
(* (getWeeksList), the accounting fetcher (getsacctData) and the           *)
(* week-cached read/normalise/merge pipeline (readDataFrame).              *)
(*                                                                         *)
(* Time.  A datetime.datetime is an integer number of seconds since the    *)
(* midnight that starts an (arbitrary) Monday; day d is the d-th day       *)
(* after that Monday, so isoweekday and the ISO week both follow from      *)
(* d.  An ISO-8601 string is the tuple of the fields written in it:        *)
(* <<d>> is a date-only string ("2024-03-01"), <<d, s>> a string with a    *)
(* time of day ("2024-03-01T08:00:00"), and <<>> a string that             *)
(* datetime.fromisoformat rejects.                                         *)
(***************************************************************************)
EXTENDS Integers, Sequences, FiniteSets, TLC

\* ------------------------------------------------------------------ bounds

\* Days 0..MaxDay are the calendar days getWeeksList / getsacctData are tried on.
MaxDay == 21

\* Days 0..MaxReadDay are the calendar days readDataFrame is tried on.
MaxReadDay == 7

\* ------------------------------------------------------- program constants

\* Seconds in a day (the literal 86400 of getWeeksList; timedelta's day).
SecondsPerDay == 86400

\* datetime.timedelta(hours=23, minutes=59, seconds=59)
EndOfDay == 23 * 3600 + 59 * 60 + 59

\* The largest number of days getsacctData accepts.
MaxSacctDays == 7

\* Times of day (other than midnight) that an input string may carry.
TimesOfDay == {8 * 3600, 14 * 3600}

Days == 0 .. MaxDay

ReadDays == 0 .. MaxReadDay

\* The strings that are handed to getWeeksList and getsacctData.
IsoStrings == {<<d>> : d \in Days} \cup {<<d, s>> : d \in Days, s \in TimesOfDay}

\* A string that is no ISO-8601 date.
BadString == <<>>

\* ------------------------------------------------------------ datetime

\* datetime.datetime.fromisoformat succeeds on str.
Parses(str) == Len(str) \in {1, 2}

\* datetime.datetime.fromisoformat(str), for a str it accepts.
fromisoformat(str) ==
    IF Len(str) = 1 THEN str[1] * SecondsPerDay
                    ELSE str[1] * SecondsPerDay + str[2]

\* datetime.isoformat(): always written with its time of day.
isoformat(t) == <<t \div SecondsPerDay, t % SecondsPerDay>>

\* timedelta.days of (b - a): timedelta normalises to 0 <= seconds < 86400.
TimedeltaDays(a, b) == (b - a) \div SecondsPerDay

\* timedelta.seconds of (b - a).
TimedeltaSeconds(a, b) == (b - a) % SecondsPerDay

\* datetime.date(): the calendar day a datetime falls on.
DayOf(t) == t \div SecondsPerDay

\* datetime.isoweekday(): Monday is 1, Sunday is 7.
isoweekday(t) == (DayOf(t) % 7) + 1

\* datetime.isocalendar()[:2]: the (ISO year, ISO week) pair, which names
\* the Monday-to-Sunday week the day lies in; here the number of that week.
isocalendar(t) == DayOf(t) \div 7

\* ------------------------------------------------------------ getWeeksList

\* The loop over rrule.rrule(WEEKLY, dtstart=weekstart, until=day_end):
\* one window per weekly recurrence that is not after day_end.
RECURSIVE WeeklyWindows(_, _)
WeeklyWindows(weekstart, day_end) ==
    IF weekstart > day_end THEN <<>>
    ELSE LET sunday == weekstart + 6 * SecondsPerDay
             weekend == IF sunday > day_end THEN day_end ELSE sunday
         IN  <<<<weekstart, weekend + EndOfDay>>>>
                 \o WeeklyWindows(weekstart + 7 * SecondsPerDay, day_end)

\* The .seconds test of the "whole days" branch, as written.
SubDayTest(secondstoprocess) ==
    secondstoprocess > 0 /\ secondstoprocess < SecondsPerDay

\* The end of a window that is to run through its last day.
ThroughDay(t) == t + EndOfDay

getWeeksList(sd, ed) ==
    LET ok == Parses(sd) /\ Parses(ed)
        day_start == IF ok THEN fromisoformat(sd) ELSE 0
        day_end == IF ok THEN fromisoformat(ed) ELSE 0
        daystoprocess == IF ok THEN TimedeltaDays(day_start, day_end) + 1 ELSE 0
        secondstoprocess == TimedeltaSeconds(day_start, day_end)
    IN  IF daystoprocess <= 0 THEN <<>>
        ELSE IF SubDayTest(secondstoprocess) THEN <<<<day_start, day_end>>>>
        ELSE IF daystoprocess < 7 THEN <<<<day_start, ThroughDay(day_end)>>>>
        ELSE LET days_until_sunday == 7 - isoweekday(day_start)
                 weekend == day_start + days_until_sunday * SecondsPerDay
                 nextmonday == weekend + SecondsPerDay
             IN  <<<<day_start, ThroughDay(weekend)>>>>
                     \o WeeklyWindows(nextmonday, day_end)


\* ------------------------------------------------ the accounting database

\* The optional value of a nullable column: Null, or Some(v).
Null == <<>>

Some(v) == <<v>>

\* A text field: the sequence of its characters.
Chars208K == <<"2", "0", "8", "K">>

Chars43992K == <<"4", "3", "9", "9", "2", "K">>

Chars46908K == <<"4", "6", "9", "0", "8", "K">>

Chars40052K == <<"4", "0", "0", "5", "2", "K">>

CharsUnknown == <<"U", "n", "k", "n", "o", "w", "n">>

CharsNone == <<"N", "o", "n", "e">>

\* What the accounting database reports as MaxRSS of the step 17031184.0
\* while it runs: the value grows from the first reading to the second.
StepReadings == <<Chars208K, Chars43992K>>

\* The jobs and job steps of the accounting database, in the order sacct
\* lists them (the sample of getsacctData's docstring, placed on days 2
\* and 5..7): JobID, the time the job ran, and its fields.  An allocation
\* row carries no MaxRSS; a step carries one.
JobTable(reading) ==
    << [JobID |-> "17031184", from |-> 5 * SecondsPerDay + 36000,
        to |-> 7 * SecondsPerDay + 43200, User |-> "alice", Account |-> "hpc",
        CPUTimeRAW |-> 7200, MaxRSS |-> <<>>, AllocCPUS |-> 1],
       [JobID |-> "17031184.0", from |-> 5 * SecondsPerDay + 36000,
        to |-> 7 * SecondsPerDay + 43200, User |-> "alice", Account |-> "hpc",
        CPUTimeRAW |-> 7200, MaxRSS |-> StepReadings[reading], AllocCPUS |-> 1],
       [JobID |-> "17031931", from |-> 2 * SecondsPerDay + 3600,
        to |-> 2 * SecondsPerDay + 7200, User |-> "bob", Account |-> "hpc_gpu",
        CPUTimeRAW |-> 14400, MaxRSS |-> CharsUnknown, AllocCPUS |-> 4],
       [JobID |-> "17031931.batch", from |-> 2 * SecondsPerDay + 3600,
        to |-> 2 * SecondsPerDay + 7200, User |-> "bob", Account |-> "hpc_gpu",
        CPUTimeRAW |-> 3600, MaxRSS |-> Chars46908K, AllocCPUS |-> 1],
       [JobID |-> "17031931.0", from |-> 2 * SecondsPerDay + 3600,
        to |-> 2 * SecondsPerDay + 7200, User |-> "bob", Account |-> "hpc_gpu",
        CPUTimeRAW |-> 14400, MaxRSS |-> Chars40052K, AllocCPUS |-> 4] >>

\* The line of sacct's output for one job: the seven --format fields.
CsvRow(j) ==
    [JobID |-> j.JobID, Start |-> isoformat(j.from), User |-> j.User,
     Account |-> j.Account, CPUTimeRAW |-> j.CPUTimeRAW, MaxRSS |-> j.MaxRSS,
     AllocCPUS |-> j.AllocCPUS]

\* The header line sacct --parsable2 writes before the rows.
HeaderLine == <<"JobID", "Start", "User", "Account", "CPUTimeRAW", "MaxRSS", "AllocCPUS">>

\* stdout of `sacct --allusers --format=... --parsable2 --starttime S
\* --endtime E`: the header and one row per job or step that ran within
\* [S, E]; nothing at all when the command fails.
SacctStdout(starttime, endtime, reading, succeeds) ==
    IF ~succeeds THEN <<>>
    ELSE LET s == fromisoformat(starttime)
             e == fromisoformat(endtime)
             InWindow(j) == j.from <= e /\ j.to >= s
         IN  <<HeaderLine>> \o LET ran == SelectSeq(JobTable(reading), InWindow)
                 IN  [i \in 1 .. Len(ran) |-> CsvRow(ran[i])]

\* ------------------------------------------------------------ getsacctData

\* What a Python function returns when it ends with a bare `return`.
None == [none |-> TRUE]

\* The size test with its lower bound off by one (`< 0` for `<= 0`).
RefusedBelowZero(daystoprocess) == daystoprocess > MaxSacctDays \/ daystoprocess < 0

\* The size test of getsacctData: the request is refused.
Refused(daystoprocess) == daystoprocess > MaxSacctDays \/ daystoprocess <= 0

\* getsacctData(startdate, enddate): its return value and the command
\* lines it ran (each the pair of --starttime and --endtime arguments).
getsacctData(sd, ed, reading, succeeds) ==
    LET day_start == fromisoformat(sd)
        day_end == fromisoformat(ed)
        daystoprocess == TimedeltaDays(day_start, day_end) + 1
    IN  IF Refused(daystoprocess)
        THEN [ret |-> None, commands |-> <<>>]
        ELSE [ret |-> [none |-> FALSE,
                       stdout |-> SacctStdout(sd, ed, reading, succeeds)],
              commands |-> <<<<sd, ed>>>>]


\* ------------------------------------------------- the metric normaliser

\* null_values=["None", "Unknown"]; an empty field is null as well.
IsNullToken(chars) == chars \in {<<>>, CharsNone, CharsUnknown}

DigitValue(c) ==
    CASE c = "0" -> 0 [] c = "1" -> 1 [] c = "2" -> 2 [] c = "3" -> 3
      [] c = "4" -> 4 [] c = "5" -> 5 [] c = "6" -> 6 [] c = "7" -> 7
      [] c = "8" -> 8 [] c = "9" -> 9

\* .cast(pl.Float64) of a string of digits.
RECURSIVE ParseDigits(_)
ParseDigits(chars) ==
    IF chars = <<>> THEN 0
    ELSE 10 * ParseDigits(SubSeq(chars, 1, Len(chars) - 1))
             + DigitValue(chars[Len(chars)])

\* pl.col("MaxRSS").str.ends_with(c)
EndsWith(chars, c) == chars # <<>> /\ chars[Len(chars)] = c

\* The when/then chain that picks the multiplier of a MaxRSS suffix.
Multiplier(chars) ==
    IF EndsWith(chars, "K") THEN 1000
    ELSE IF EndsWith(chars, "M") THEN 1000000
    ELSE IF EndsWith(chars, "G") THEN 1000000000
    ELSE 1

\* .str.replace(r'[KMG]$', '')
DropSuffix(chars) ==
    IF chars # <<>> /\ chars[Len(chars)] \in {"K", "M", "G"}
    THEN SubSeq(chars, 1, Len(chars) - 1)
    ELSE chars

\* The memorybytes column: null where MaxRSS is null.
MemoryBytes(maxrss) ==
    IF maxrss = Null THEN Null
    ELSE Some(ParseDigits(DropSuffix(maxrss[1])) * Multiplier(maxrss[1]))

\* A Float64 quotient num / den * 10^exp, kept exact.
Quotient(num, den, exp) == [num |-> num, den |-> den, exp |-> exp]

\* The MemPerCore column: memorybytes / AllocCPUS * 1.0e-9.
MemPerCoreOf(memorybytes, alloccpus) ==
    IF memorybytes = Null THEN Null
    ELSE Some(Quotient(memorybytes[1], alloccpus, -9))

\* One line of the csv as pl.read_csv types it.
ParseCsvRow(line) ==
    [JobID |-> line.JobID, Start |-> fromisoformat(line.Start),
     User |-> line.User, Account |-> line.Account,
     CPUTimeRAW |-> line.CPUTimeRAW,
     MaxRSS |-> IF IsNullToken(line.MaxRSS) THEN Null ELSE Some(line.MaxRSS),
     AllocCPUS |-> line.AllocCPUS]

\* The three with_columns calls and the select that orders the columns.
DeriveRow(r) ==
    LET memorybytes == MemoryBytes(r.MaxRSS)
    IN  [JobID |-> r.JobID, Start |-> r.Start, Account |-> r.Account,
         User |-> r.User, CPUTimeRAW |-> r.CPUTimeRAW,
         CoreH |-> Quotient(r.CPUTimeRAW, 3600, 0), MaxRSS |-> r.MaxRSS,
         memorybytes |-> memorybytes, AllocCPUS |-> r.AllocCPUS,
         MemPerCore |-> MemPerCoreOf(memorybytes, r.AllocCPUS)]

\* The table written without the filter on MemPerCore.
FilterNothing(df) == df

\* weekdf.filter(pl.col("MemPerCore").is_not_null())
FilterNotNull(df) == LET Kept(r) == r.MemPerCore # Null IN SelectSeq(df, Kept)

\* pl.read_csv of a non-empty stdout followed by the derivations and the
\* filter: the table that is written to the cache file.
Normalize(stdout) ==
    LET lines == Tail(stdout)
        df == [i \in 1 .. Len(lines) |-> DeriveRow(ParseCsvRow(lines[i]))]
    IN  FilterNotNull(df)

\* pl.read_csv raises NoDataError on an input without data; BytesIO(None)
\* is an empty buffer.
ReadCsvRaises(ret) == ret.none \/ ret.stdout = <<>>

\* ------------------------------------------------------------- the merger

RECURSIVE Concat(_)
Concat(dfs) == IF dfs = <<>> THEN <<>> ELSE Head(dfs) \o Concat(Tail(dfs))

\* alldfs["JobID"].is_duplicated().any()
AnyDuplicated(df) ==
    \E i, j \in 1 .. Len(df) : i # j /\ df[i].JobID = df[j].JobID

\* unique(..., keep="last"): row i stays when no row after it has its JobID.
KeepLast(df, i) == \A j \in (i + 1) .. Len(df) : df[j].JobID # df[i].JobID

\* The rows unique(subset="JobID", keep=...) keeps: row i stays when no
\* row before it has its JobID.
KeepFirst(df, i) == \A j \in 1 .. (i - 1) : df[j].JobID # df[i].JobID

\* alldfs.unique(subset="JobID", keep="first")
Unique(df) ==
    LET idx == {i \in 1 .. Len(df) : KeepFirst(df, i)}
        RECURSIVE Pick(_)
        Pick(i) == IF i > Len(df) THEN <<>>
                   ELSE (IF i \in idx THEN <<df[i]>> ELSE <<>>) \o Pick(i + 1)
    IN  Pick(1)

\* a <= b for two MemPerCore values; a null sorts before every number.
MemLeq(a, b) ==
    IF a = Null THEN TRUE
    ELSE IF b = Null THEN FALSE
    ELSE a[1].num * b[1].den <= b[1].num * a[1].den

\* The order alldfs.sort("MemPerCore", descending=False) compares by.
SortsBefore(a, b) == MemLeq(a.MemPerCore, b.MemPerCore)

RECURSIVE InsertRow(_, _)
InsertRow(sorted, r) ==
    IF sorted = <<>> THEN <<r>>
    ELSE IF SortsBefore(Head(sorted), r)
         THEN <<Head(sorted)>> \o InsertRow(Tail(sorted), r)
         ELSE <<r>> \o sorted

\* alldfs.sort("MemPerCore", descending=False).  polars leaves the order of
\* rows with equal keys open; JobTable holds no two steps with the same
\* MemPerCore, so the sorted table is the same whatever that order is.
RECURSIVE Sort(_)
Sort(df) ==
    IF df = <<>> THEN <<>>
    ELSE InsertRow(Sort(SubSeq(df, 1, Len(df) - 1)), df[Len(df)])

\* Lines 194-208 for a non-empty list of tables.
Merge(weekdfs) ==
    LET alldfs == Concat(weekdfs)
    IN  Sort(IF AnyDuplicated(alldfs) THEN Unique(alldfs) ELSE alldfs)


\* ------------------------------------------------------------------ state

VARIABLES
    pc,             \* "idle", or "returned" when a call has just ended
    startdate,      \* the arguments of the call
    enddate,
    forceRead,
    weekintervals,  \* getWeeksList's result
    fetchret,       \* getsacctData's return value (a direct call)
    commands,       \* the sacct command lines the call ran, in order
    cache,          \* ./cache: the parquet file of each (ISO year, ISO week)
    stored,         \* history: the window each cache file was built from,
                    \* and the database's reading at that time
    reading,        \* the accounting database: the step's current reading
    weekdfs,        \* readDataFrame's list of per-window tables
    fetched,        \* history: the windows handed to getsacctData, in order
    served,         \* history: the cache files read, with the window asked for
    outcome         \* how readDataFrame ended, and what it returned

vars == <<pc, startdate, enddate, forceRead, weekintervals, fetchret, commands,
          cache, stored, reading, weekdfs, fetched, served, outcome>>

\* The cache keys of the days the calls are tried on.
CacheKeys == 0 .. ((IF MaxDay > MaxReadDay THEN MaxDay ELSE MaxReadDay) \div 7)

\* os.path.exists(cachefile) is false.
NoFile == [exists |-> FALSE]

\* A parquet file holding df.
File(df) == [exists |-> TRUE, df |-> df]

\* The history of a key no file was written for.
NotStored == [window |-> <<>>, reading |-> 0]

\* No call has ended.
NoOutcome == [state |-> "none"]

\* The strings readDataFrame is tried on.
ReadStrings == {<<d>> : d \in ReadDays} \cup {BadString}

\* ---------------------------------------------------------- readDataFrame

\* weekdf.write_parquet(cachefile): the file of the key is replaced.
WriteParquet(files, key, df) == [files EXCEPT ![key] = File(df)]

\* The test that sends a window to the cache file instead of the fetcher.
UseCache(files, key, force) == files[key].exists /\ ~force

\* The body of the loop over weekintervals for one window.  st holds the
\* files, the tables so far and the histories; raised is set when
\* pl.read_csv raises, which ends the call.
ReadWeek(st, window, force, db, succeeds) ==
    LET weekstart == window[1]
        weekend == window[2]
        key == isocalendar(weekstart)
    IN  IF UseCache(st.cache, key, force)
        THEN [st EXCEPT !.weekdfs = Append(@, st.cache[key].df),
                        !.served = Append(@, [window |-> window,
                                              from |-> st.stored[key],
                                              df |-> st.cache[key].df])]
        ELSE LET got == getsacctData(isoformat(weekstart), isoformat(weekend),
                                     db, succeeds)
                 st1 == [st EXCEPT !.fetched = Append(@, window),
                                   !.commands = @ \o got.commands]
             IN  IF ReadCsvRaises(got.ret)
                 THEN [st1 EXCEPT !.raised = TRUE]
                 ELSE LET weekdf == Normalize(got.ret.stdout)
                      IN  [st1 EXCEPT !.cache = WriteParquet(@, key, weekdf),
                                      !.stored = [@ EXCEPT ![key] = [window |-> window,
                                                                     reading |-> db]],
                                      !.weekdfs = Append(@, weekdf)]

\* The loop: the windows in order, until one raises.  The command fails
\* (exits non-zero with nothing on stdout) for window number failAt.
RECURSIVE ReadWeeks(_, _, _, _, _, _)
ReadWeeks(st, windows, i, force, db, failAt) ==
    IF i > Len(windows) \/ st.raised THEN st
    ELSE ReadWeeks(ReadWeek(st, windows[i], force, db, i # failAt),
                   windows, i + 1, force, db, failAt)

\* pl.concat raises ValueError on an empty list.
ConcatRaises(dfs) == dfs = <<>>

\* readDataFrame(sd, ed, force) as one step.
ReadDataFrame(sd, ed, force, failAt) ==
    LET windows == getWeeksList(sd, ed)
        st0 == [cache |-> cache, stored |-> stored, weekdfs |-> <<>>,
                fetched |-> <<>>, commands |-> <<>>, served |-> <<>>,
                raised |-> FALSE]
        st == ReadWeeks(st0, windows, 1, force, reading, failAt)
    IN  /\ pc = "idle"
        /\ failAt \in 0 .. Len(windows)
        /\ pc' = "returned"
        /\ startdate' = sd
        /\ enddate' = ed
        /\ forceRead' = force
        /\ weekintervals' = windows
        /\ cache' = st.cache
        /\ stored' = st.stored
        /\ weekdfs' = st.weekdfs
        /\ fetched' = st.fetched
        /\ commands' = st.commands
        /\ served' = st.served
        /\ outcome' = IF st.raised \/ ConcatRaises(st.weekdfs)
                      THEN [state |-> "raised"]
                      ELSE [state |-> "returned",
                            alldfs |-> Merge(st.weekdfs),
                            period |-> fromisoformat(ed) - fromisoformat(sd)]
        /\ UNCHANGED <<fetchret, reading>>

ReadDataFrameCall ==
    \E sd \in ReadStrings, ed \in ReadStrings, force \in BOOLEAN, failAt \in 0 .. 2 :
        ReadDataFrame(sd, ed, force, failAt)

\* The caller takes the result; the next call starts from the files alone.
Return ==
    /\ pc = "returned"
    /\ pc' = "idle"
    /\ startdate' = BadString
    /\ enddate' = BadString
    /\ forceRead' = FALSE
    /\ weekintervals' = <<>>
    /\ weekdfs' = <<>>
    /\ fetched' = <<>>
    /\ commands' = <<>>
    /\ served' = <<>>
    /\ outcome' = NoOutcome
    /\ UNCHANGED <<fetchret, cache, stored, reading>>

\* The running step uses more memory: the database's reading grows.
StepProgress ==
    /\ pc = "idle"
    /\ reading < Len(StepReadings)
    /\ reading' = reading + 1
    /\ UNCHANGED <<pc, startdate, enddate, forceRead, weekintervals, fetchret,
                   commands, cache, stored, weekdfs, fetched, served, outcome>>

Init ==
    /\ pc = "idle"
    /\ startdate = BadString
    /\ enddate = BadString
    /\ forceRead = FALSE
    /\ weekintervals = <<>>
    /\ fetchret = None
    /\ commands = <<>>
    /\ cache = [k \in CacheKeys |-> NoFile]
    /\ stored = [k \in CacheKeys |-> NotStored]
    /\ reading = 1
    /\ weekdfs = <<>>
    /\ fetched = <<>>
    /\ served = <<>>
    /\ outcome = NoOutcome

Next == ReadDataFrameCall \/ Return \/ StepProgress

Spec == Init /\ [][Next]_vars

\* -------------------------------------------- getWeeksList called directly

GetWeeksListCall ==
    \E sd \in IsoStrings \cup {BadString}, ed \in IsoStrings \cup {BadString} :
        /\ pc = "idle"
        /\ startdate' = sd
        /\ enddate' = ed
        /\ weekintervals' = getWeeksList(sd, ed)
        /\ pc' = "returned"
        /\ UNCHANGED <<forceRead, fetchret, commands, cache, stored, reading,
                       weekdfs, fetched, served, outcome>>

NextWeeks == GetWeeksListCall

SpecWeeks == Init /\ [][NextWeeks]_vars

\* ------------------------- readDataFrame called once, on any input string

ReadOnceCall ==
    \E sd \in IsoStrings \cup {BadString}, ed \in IsoStrings \cup {BadString},
       force \in BOOLEAN, failAt \in 0 .. 1 :
        ReadDataFrame(sd, ed, force, failAt)

NextReadOnce == ReadOnceCall

SpecReadOnce == Init /\ [][NextReadOnce]_vars

\* -------------------------------------------- getsacctData called directly

GetsacctDataCall ==
    \E sd \in IsoStrings, ed \in IsoStrings, succeeds \in BOOLEAN :
        LET got == getsacctData(sd, ed, reading, succeeds)
        IN  /\ pc = "idle"
            /\ startdate' = sd
            /\ enddate' = ed
            /\ fetchret' = got.ret
            /\ commands' = got.commands
            /\ pc' = "returned"
            /\ UNCHANGED <<forceRead, weekintervals, cache, stored, reading,
                           weekdfs, fetched, served, outcome>>

NextFetch == GetsacctDataCall

SpecFetch == Init /\ [][NextFetch]_vars


\* ----------------------------------------------------------------- claims

\* The arguments of the call that has just ended, as datetimes.
ArgsParse == Parses(startdate) /\ Parses(enddate)

ArgStart == fromisoformat(startdate)

ArgEnd == fromisoformat(enddate)

\* The last second of calendar day d.
LastSecondOf(d) == d * SecondsPerDay + (SecondsPerDay - 1)

\* The calendar days window w touches.
DaysOfWindow(w) == DayOf(w[1]) .. DayOf(w[2])

\* C1: for every valid pair with enddate >= startdate the windows of
\* getWeeksList are ordered by start, do not overlap, each starts on the
\* calendar day after the last day of the one before, the first starts at
\* startdate, and every calendar day of [startdate, enddate] lies in
\* exactly one window.
C1_WindowsPartitionTheDays ==
    (pc = "returned" /\ ArgsParse /\ ArgEnd >= ArgStart) =>
        LET W == weekintervals
        IN  /\ W # <<>>
            /\ W[1][1] = ArgStart
            /\ \A i \in 1 .. (Len(W) - 1) :
                   /\ W[i][1] < W[i + 1][1]
                   /\ W[i][2] < W[i + 1][1]
                   /\ DayOf(W[i + 1][1]) = DayOf(W[i][2]) + 1
            /\ \A d \in DayOf(ArgStart) .. DayOf(ArgEnd) :
                   Cardinality({i \in 1 .. Len(W) : d \in DaysOfWindow(W[i])}) = 1

\* C2: every window readDataFrame hands to getsacctData passes the
\* fetcher's size check, 1 <= (end - start).days + 1 <= 7, so none is
\* refused: each one fetched is a command run.
C2_NoFetchedWindowRefused ==
    pc = "returned" =>
        /\ \A i \in 1 .. Len(fetched) :
               LET span == ((fetched[i][2] - fetched[i][1]) \div SecondsPerDay) + 1
               IN  1 <= span /\ span <= 7
        /\ \A i \in 1 .. Len(fetched) :
               \E c \in 1 .. Len(commands) :
                   commands[c] = <<isoformat(fetched[i][1]), isoformat(fetched[i][2])>>

\* What Fetcher + Normaliser produce for window w when the database's
\* reading is r.
FetchedTable(w, r) ==
    Normalize(SacctStdout(isoformat(w[1]), isoformat(w[2]), r, TRUE))

\* C3: the table read from a cache file for a window is the normalised
\* table of that same window (as the database stood when the file was
\* written): a file stored under an (ISO year, ISO week) key by one window
\* is never served to a window with that key that covers other days.
C3_ServedFileIsOfTheWindow ==
    \A i \in 1 .. Len(served) :
        served[i].df = FetchedTable(served[i].window, served[i].from.reading)

\* How often window w occurs in seq.
Count(seq, w) == Cardinality({i \in 1 .. Len(seq) : seq[i] = w})

\* C4: in a call of readDataFrame, for each window: when forceRead is
\* false and the file of its key exists, getsacctData is not called and
\* the file is returned and left as it is; otherwise getsacctData is
\* called exactly once for the window and the normalised result replaces
\* the file.
C4_HitReadsFileElseOneFetch ==
    [][(pc = "idle" /\ pc' = "returned") =>
          \A i \in 1 .. Len(weekintervals') :
              LET w == weekintervals'[i]
                  key == isocalendar(w[1])
              IN  IF cache[key].exists /\ ~forceRead'
                  THEN /\ Count(fetched', w) = 0
                       /\ cache'[key] = cache[key]
                       /\ Len(weekdfs') >= i
                       /\ weekdfs'[i] = cache[key].df
                  ELSE /\ Count(fetched', w) = 1
                       /\ Len(weekdfs') >= i
                       /\ cache'[key] = File(weekdfs'[i])]_vars

\* C5: no call of readDataFrame ends with an exception, whether its range
\* is invalid, a window is refused or the command fails: it returns a
\* table.
C5_ReadNeverRaises == pc = "returned" => outcome.state = "returned"

\* C6: a range whose dates are at most 5 days apart, and that is not a
\* sub-day range within one day, gives exactly one window, from startdate
\* to 23:59:59 of enddate's calendar day.
C6_ShortRangeOneWindowToEndOfDay ==
    (/\ pc = "returned" /\ ArgsParse /\ ArgEnd >= ArgStart
     /\ DayOf(ArgEnd) - DayOf(ArgStart) <= 5
     /\ ~(DayOf(ArgEnd) = DayOf(ArgStart) /\ ArgEnd > ArgStart)) =>
        weekintervals = <<<<ArgStart, LastSecondOf(DayOf(ArgEnd))>>>>

\* The first Sunday that is not before day d.
FirstSundayFrom(d) == d + (6 - (d % 7))

\* C7: a range of 7 or more days ((end - start).days + 1 >= 7) gives a first window from
\* startdate to the end of the first Sunday >= startdate, then windows
\* that start on a Monday and end at the end of the following Sunday, the
\* last one clipped to the end of enddate's day.
C7_WeeksMondayToSunday ==
    (/\ pc = "returned" /\ ArgsParse
     /\ ((ArgEnd - ArgStart) \div SecondsPerDay) + 1 >= 7) =>
        LET W == weekintervals
            n == Len(W)
        IN  /\ n >= 1
            /\ W[1][1] = ArgStart
            /\ W[1][2] = LastSecondOf(FirstSundayFrom(DayOf(ArgStart)))
            /\ W[n][2] = LastSecondOf(DayOf(ArgEnd))
            /\ \A i \in 2 .. n :
                   /\ DayOf(W[i][1]) % 7 = 0
                   /\ W[i][1] = LastSecondOf(DayOf(W[i - 1][2])) + 1
            /\ \A i \in 1 .. (n - 1) :
                   W[i][2] = LastSecondOf(FirstSundayFrom(DayOf(W[i][1])))

\* C8 as claimed: getsacctData refuses (returns None, runs no command)
\* every window of more than 7 days or with end at or before start, and
\* runs the command exactly once, with the window's start and end, for
\* every other window.
C8_RefusesEndAtOrBeforeStart ==
    pc = "returned" =>
        IF ((ArgEnd - ArgStart) \div SecondsPerDay) + 1 > 7 \/ ArgEnd <= ArgStart
        THEN fetchret = None /\ commands = <<>>
        ELSE fetchret # None /\ commands = <<<<startdate, enddate>>>>

\* C8 as amended: it refuses every window of more than 7 days or with end
\* strictly before start; a window whose end equals its start counts one
\* day and is fetched, as every other window is, by one command.
C8_RefusesEndBeforeStart ==
    pc = "returned" =>
        IF ((ArgEnd - ArgStart) \div SecondsPerDay) + 1 > 7 \/ ArgEnd < ArgStart
        THEN fetchret = None /\ commands = <<>>
        ELSE fetchret # None /\ commands = <<<<startdate, enddate>>>>

\* A window that ends before it starts was refused.
C8_Witness ==
    /\ pc = "returned"
    /\ ArgEnd < ArgStart
    /\ fetchret = None
    /\ commands = <<>>

\* C9: the returned table holds each JobID once, the row kept for a JobID
\* is its first row in the concatenation of the per-window tables, and
\* the rows are in ascending order of MemPerCore.
C9_FirstOccurrenceKeptAndSorted ==
    outcome.state = "returned" =>
        LET all == Concat(weekdfs)
            out == outcome.alldfs
        IN  /\ \A i, j \in 1 .. Len(out) : out[i].JobID = out[j].JobID => i = j
            /\ \A k \in 1 .. Len(all) : \E i \in 1 .. Len(out) : out[i].JobID = all[k].JobID
            /\ \A i \in 1 .. Len(out) :
                   \E k \in 1 .. Len(all) :
                       /\ all[k] = out[i]
                       /\ \A j \in 1 .. (k - 1) : all[j].JobID # out[i].JobID
            /\ \A i \in 1 .. (Len(out) - 1) :
                   out[i].MemPerCore[1].num * out[i + 1].MemPerCore[1].den
                       <= out[i + 1].MemPerCore[1].num * out[i].MemPerCore[1].den

\* A call returned a table merged from two tables that hold the same JobID
\* with different rows.
C9_Witness ==
    /\ outcome.state = "returned"
    /\ Len(weekdfs) = 2
    /\ Len(outcome.alldfs) >= 2
    /\ \E a \in 1 .. Len(weekdfs[1]), b \in 1 .. Len(weekdfs[2]) :
           /\ weekdfs[1][a].JobID = weekdfs[2][b].JobID
           /\ weekdfs[1][a] # weekdfs[2][b]

\* C10: no cache file holds a row whose MemPerCore is null, and neither a
\* table read from a file nor one just fetched brings such a row into the
\* merged table.
C10_NoNullMetricRowCached ==
    /\ \A k \in CacheKeys :
           cache[k].exists =>
               \A i \in 1 .. Len(cache[k].df) : cache[k].df[i].MemPerCore # Null
    /\ \A t \in 1 .. Len(weekdfs) :
           \A i \in 1 .. Len(weekdfs[t]) : weekdfs[t][i].MemPerCore # Null
    /\ outcome.state = "returned" =>
           \A i \in 1 .. Len(outcome.alldfs) : outcome.alldfs[i].MemPerCore # Null

\* A file was written from an output of sacct that held rows without a
\* memory reading, and a later call read that file.
C10_Witness ==
    /\ pc = "returned"
    /\ served # <<>>
    /\ \E k \in CacheKeys :
           /\ cache[k].exists
           /\ cache[k].df # <<>>
           /\ Len(SacctStdout(isoformat(stored[k].window[1]),
                              isoformat(stored[k].window[2]),
                              stored[k].reading, TRUE)) - 1 > Len(cache[k].df)

=============================================================================
